---------------------------- MODULE Spec2Model ----------------------------
(***************************************************************************)
(* Verification model of the elliptic-curve core:                          *)
(*                                                                         *)
(*   - k256/src/arithmetic/projective.rs : the projective group law of     *)
(*     secp256k1 (Renes-Costello-Batina complete formulas, a = 0, b = 7);  *)
(*   - p256/src/ecdsa.rs : ECDSA signing, verification and the public-key  *)
(*     recovery iterator PKRecover.                                        *)
(*                                                                         *)
(* The 256-bit fields are scaled down to small prime fields that keep the  *)
(* shape of the real parameters:                                           *)
(*   secp256k1 : y^2 = x^3 + 7     over GF(13), a group of prime order 7;  *)
(*   P-256     : y^2 = x^3 - 3x + 15 over GF(23), prime order n = 17,      *)
(*               with n < p < 2n as for the real curve.                    *)
(* Both groups have prime order and cofactor 1, as the real ones.          *)
(***************************************************************************)
EXTENDS Integers, Sequences, FiniteSets, TLC

(***************************************************************************)
(*                    PART I.  k256: FieldElement                          *)
(*                                                                         *)
(* A FieldElement is held as a natural number that is NOT kept reduced:    *)
(* add and double accumulate, negate(m) subtracts from a multiple of the   *)
(* modulus, and only mul, square, normalize and normalize_weak reduce.     *)
(* Its field value is the number modulo K256_P.                            *)
(***************************************************************************)

\* The field prime of the scaled-down secp256k1.
K256_P == 13

\* The curve coefficient b of y^2 = x^3 + b, as the small integer handed to
\* mul_single.
CURVE_EQUATION_B_SINGLE == 7

fe_zero == 0

fe_one == 1

fe_normalize(a) == a % K256_P

fe_normalize_weak(a) == a % K256_P

fe_add(a, b) == a + b

fe_double(a) == a + a

\* negate(m): (m + 1) * p - self, for self of magnitude at most m.
fe_negate(a, m) == (m + 1) * K256_P - a

fe_mul(a, b) == (a * b) % K256_P

fe_square(a) == (a * a) % K256_P

fe_mul_single(a, k) == a * k

RECURSIVE fe_pow(_, _)
fe_pow(a, e) == IF e = 0 THEN 1 ELSE fe_mul(a, fe_pow(a, e - 1))

\* Option / CtOption: the absent value, a present value, and its accessors.
None == << >>

Some(v) == <<v>>

is_none(o) == o = << >>

is_some(o) == o # << >>

unwrap(o) == o[1]

\* invert(): a^(p-2), and no value for zero.
fe_invert(a) ==
    IF fe_normalize(a) = 0 THEN None ELSE Some(fe_pow(fe_normalize(a), K256_P - 2))

\* Equality of field elements compares the normalized values.
fe_eq(a, b) == fe_normalize(a) = fe_normalize(b)

(***************************************************************************)
(*                    PART II.  k256: AffinePoint                          *)
(***************************************************************************)

AffinePoint(x, y, infinity) == [x |-> x, y |-> y, infinity |-> infinity]

\* AffinePoint::identity(): the coordinates of the point at infinity are zero.
affine_identity == AffinePoint(fe_zero, fe_zero, 1)

\* AffinePoint::generator(): the base point of the scaled-down curve.
affine_generator == AffinePoint(7, 5, 0)

\* AffinePoint::neg(): (x, -y, infinity).
affine_neg(p) == AffinePoint(p.x, fe_normalize_weak(fe_negate(p.y, 1)), p.infinity)

\* AffinePoint::ct_eq: both coordinates and the infinity flag agree.
affine_ct_eq(p, q) == fe_eq(p.x, q.x) /\ fe_eq(p.y, q.y) /\ p.infinity = q.infinity

affine_is_identity(p) == p.infinity = 1

(***************************************************************************)
(*                    PART III.  k256: ProjectivePoint                     *)
(***************************************************************************)

ProjectivePoint(x, y, z) == [x |-> x, y |-> y, z |-> z]

identity == ProjectivePoint(fe_zero, fe_one, fe_zero)

conditional_select(a, b, choice) ==
    ProjectivePoint(IF choice = 1 THEN b.x ELSE a.x,
                    IF choice = 1 THEN b.y ELSE a.y,
                    IF choice = 1 THEN b.z ELSE a.z)

\* A conversion with the arguments of conditional_select exchanged: the
\* round trip of C7 depends on their order.
from_exchanged(p) ==
    LET projective == ProjectivePoint(p.x, p.y, fe_one)
    IN  conditional_select(identity, projective, p.infinity)

\* impl From<AffinePoint> for ProjectivePoint
from(p) ==
    LET projective == ProjectivePoint(p.x, p.y, fe_one)
    IN  conditional_select(projective, identity, p.infinity)

generator == from(affine_generator)

to_affine(self) ==
    LET zinv == fe_invert(self.z)
    IN  IF is_none(zinv)
        THEN affine_identity
        ELSE AffinePoint(fe_mul(self.x, unwrap(zinv)), fe_mul(self.y, unwrap(zinv)), 0)

ct_eq(self, other) == affine_ct_eq(to_affine(self), to_affine(other))

is_identity(self) == ct_eq(self, identity)

\* A negation that negates x in place of y: P + (-P) = O of C5 depends on
\* the coordinate that neg negates.
neg_of_x(self) ==
    ProjectivePoint(fe_normalize_weak(fe_negate(self.x, 1)), self.y, self.z)

neg(self) ==
    ProjectivePoint(self.x, fe_normalize_weak(fe_negate(self.y, 1)), self.z)

add(self, other) ==
    LET xx == fe_mul(self.x, other.x)
        yy == fe_mul(self.y, other.y)
        zz == fe_mul(self.z, other.z)
        n_xx_yy == fe_negate(fe_add(xx, yy), 2)
        n_yy_zz == fe_negate(fe_add(yy, zz), 2)
        n_xx_zz == fe_negate(fe_add(xx, zz), 2)
        xy_pairs == fe_add(fe_mul(fe_add(self.x, self.y), fe_add(other.x, other.y)), n_xx_yy)
        yz_pairs == fe_add(fe_mul(fe_add(self.y, self.z), fe_add(other.y, other.z)), n_yy_zz)
        xz_pairs == fe_add(fe_mul(fe_add(self.x, self.z), fe_add(other.x, other.z)), n_xx_zz)
        bzz == fe_mul_single(zz, CURVE_EQUATION_B_SINGLE)
        bzz3 == fe_normalize_weak(fe_add(fe_double(bzz), bzz))
        yy_m_bzz3 == fe_add(yy, fe_negate(bzz3, 1))
        yy_p_bzz3 == fe_add(yy, bzz3)
        byz == fe_normalize_weak(fe_mul_single(yz_pairs, CURVE_EQUATION_B_SINGLE))
        byz3 == fe_normalize_weak(fe_add(fe_double(byz), byz))
        xx3 == fe_add(fe_double(xx), xx)
        bxx9 == fe_normalize_weak(fe_mul_single(
                    fe_normalize_weak(fe_add(fe_double(xx3), xx3)),
                    CURVE_EQUATION_B_SINGLE))
        new_x == fe_normalize_weak(fe_add(fe_mul(xy_pairs, yy_m_bzz3),
                                          fe_negate(fe_mul(byz3, xz_pairs), 1)))
        new_y == fe_normalize_weak(fe_add(fe_mul(yy_p_bzz3, yy_m_bzz3),
                                          fe_mul(bxx9, xz_pairs)))
        new_z == fe_normalize_weak(fe_add(fe_mul(yz_pairs, yy_p_bzz3),
                                          fe_mul(xx3, xy_pairs)))
    IN  ProjectivePoint(new_x, new_y, new_z)

add_mixed(self, other) ==
    LET xx == fe_mul(self.x, other.x)
        yy == fe_mul(self.y, other.y)
        xy_pairs == fe_add(fe_mul(fe_add(self.x, self.y), fe_add(other.x, other.y)),
                           fe_negate(fe_add(xx, yy), 2))
        yz_pairs == fe_add(fe_mul(other.y, self.z), self.y)
        xz_pairs == fe_add(fe_mul(other.x, self.z), self.x)
        bzz == fe_mul_single(self.z, CURVE_EQUATION_B_SINGLE)
        bzz3 == fe_normalize_weak(fe_add(fe_double(bzz), bzz))
        yy_m_bzz3 == fe_add(yy, fe_negate(bzz3, 1))
        yy_p_bzz3 == fe_add(yy, bzz3)
        byz == fe_normalize_weak(fe_mul_single(yz_pairs, CURVE_EQUATION_B_SINGLE))
        byz3 == fe_normalize_weak(fe_add(fe_double(byz), byz))
        xx3 == fe_add(fe_double(xx), xx)
        bxx9 == fe_normalize_weak(fe_mul_single(
                    fe_normalize_weak(fe_add(fe_double(xx3), xx3)),
                    CURVE_EQUATION_B_SINGLE))
    IN  ProjectivePoint(
            fe_normalize_weak(fe_add(fe_mul(xy_pairs, yy_m_bzz3),
                                     fe_negate(fe_mul(byz3, xz_pairs), 1))),
            fe_normalize_weak(fe_add(fe_mul(yy_p_bzz3, yy_m_bzz3),
                                     fe_mul(bxx9, xz_pairs))),
            fe_normalize_weak(fe_add(fe_mul(yz_pairs, yy_p_bzz3),
                                     fe_mul(xx3, xy_pairs))))

\* A doubling whose yy_zz8 is doubled twice only (4 * yy * zz): the
\* equality of C6 depends on the constants of the doubling formula.
double_yy_zz4(self) ==
    LET yy == fe_square(self.y)
        zz == fe_square(self.z)
        xy2 == fe_double(fe_mul(self.x, self.y))
        bzz == fe_mul_single(zz, CURVE_EQUATION_B_SINGLE)
        bzz3 == fe_normalize_weak(fe_add(fe_double(bzz), bzz))
        bzz9 == fe_normalize_weak(fe_add(fe_double(bzz3), bzz3))
        yy_m_bzz9 == fe_add(yy, fe_negate(bzz9, 1))
        yy_p_bzz3 == fe_add(yy, bzz3)
        yy_zz == fe_mul(yy, zz)
        yy_zz8 == fe_double(fe_double(yy_zz))
        t == fe_mul_single(fe_normalize_weak(fe_add(fe_double(yy_zz8), yy_zz8)),
                           CURVE_EQUATION_B_SINGLE)
    IN  ProjectivePoint(
            fe_mul(xy2, yy_m_bzz9),
            fe_normalize_weak(fe_add(fe_mul(yy_m_bzz9, yy_p_bzz3), t)),
            fe_normalize_weak(fe_double(fe_double(fe_double(
                fe_mul(fe_mul(yy, self.y), self.z))))))

double(self) ==
    LET yy == fe_square(self.y)
        zz == fe_square(self.z)
        xy2 == fe_double(fe_mul(self.x, self.y))
        bzz == fe_mul_single(zz, CURVE_EQUATION_B_SINGLE)
        bzz3 == fe_normalize_weak(fe_add(fe_double(bzz), bzz))
        bzz9 == fe_normalize_weak(fe_add(fe_double(bzz3), bzz3))
        yy_m_bzz9 == fe_add(yy, fe_negate(bzz9, 1))
        yy_p_bzz3 == fe_add(yy, bzz3)
        yy_zz == fe_mul(yy, zz)
        yy_zz8 == fe_double(fe_double(fe_double(yy_zz)))
        t == fe_mul_single(fe_normalize_weak(fe_add(fe_double(yy_zz8), yy_zz8)),
                           CURVE_EQUATION_B_SINGLE)
    IN  ProjectivePoint(
            fe_mul(xy2, yy_m_bzz9),
            fe_normalize_weak(fe_add(fe_mul(yy_m_bzz9, yy_p_bzz3), t)),
            fe_normalize_weak(fe_double(fe_double(fe_double(
                fe_mul(fe_mul(yy, self.y), self.z))))))

sub(self, other) == add(self, neg(other))

sub_mixed(self, other) == add_mixed(self, affine_neg(other))

(***************************************************************************)
(*                    PART IV.  p256: scalars and the group                *)
(*                                                                         *)
(* The arithmetic below ecdsa.rs (Scalar, FieldElement, AffinePoint and    *)
(* ProjectivePoint of p256) is modelled at the level of its contract: a    *)
(* Scalar is an integer modulo the group order, and a point of p256 is     *)
(* held in affine normal form with the group law of the curve.             *)
(***************************************************************************)

\* The field prime of the scaled-down P-256.
P256_P == 23

\* The curve coefficients of y^2 = x^3 + a x + b, with a = -3 mod p.
P256_A == 20

P256_B == 15

\* arithmetic::scalar::MODULUS, the group order n.
MODULUS == 17

\* Every Scalar value.
Scalars == 0 .. (MODULUS - 1)

\* Every NonZeroScalar value.
NonZeroScalars == 1 .. (MODULUS - 1)

scalar_zero == 0

scalar_one == 1

scalar_add(a, b) == (a + b) % MODULUS

scalar_mul(a, b) == (a * b) % MODULUS

scalar_is_zero(a) == a = 0

RECURSIVE scalar_pow(_, _)
scalar_pow(a, e) == IF e = 0 THEN 1 ELSE scalar_mul(a, scalar_pow(a, e - 1))

\* Scalar::invert / invert_vartime: no value for zero.
scalar_invert(a) ==
    IF a % MODULUS = 0 THEN None ELSE Some(scalar_pow(a % MODULUS, MODULUS - 2))

\* Scalar::from_bytes_reduced(&x.to_bytes()): the integer x modulo n.
from_bytes_reduced(x) == x % MODULUS

\* NonZeroScalar::new: compares the representation with zero.
NonZeroScalar_new(a) == IF a = 0 THEN None ELSE Some(a)

p256_fe_mul(a, b) == (a * b) % P256_P

RECURSIVE p256_fe_pow(_, _)
p256_fe_pow(a, e) == IF e = 0 THEN 1 ELSE p256_fe_mul(a, p256_fe_pow(a, e - 1))

p256_fe_invert(a) == p256_fe_pow(a % P256_P, P256_P - 2)

\* FieldElement::sqrt for p = 3 mod 4: a^((p+1)/4), when that is a root.
p256_fe_sqrt(a) ==
    LET y == p256_fe_pow(a % P256_P, (P256_P + 1) \div 4)
    IN  IF p256_fe_mul(y, y) = a % P256_P THEN Some(y) ELSE None

p256_identity == AffinePoint(0, 0, 1)

p256_generator == AffinePoint(1, 6, 0)

p256_is_identity(p) == p.infinity = 1

p256_neg(p) == AffinePoint(p.x, (P256_P - p.y) % P256_P, p.infinity)

\* The group law of the curve.
p256_add(p, q) ==
    IF p.infinity = 1 THEN q
    ELSE IF q.infinity = 1 THEN p
    ELSE IF p.x = q.x /\ (p.y + q.y) % P256_P = 0 THEN p256_identity
    ELSE LET lambda ==
                 IF p.x = q.x
                 THEN p256_fe_mul(3 * p.x * p.x + P256_A, p256_fe_invert(2 * p.y))
                 ELSE p256_fe_mul(q.y - p.y + P256_P, p256_fe_invert(q.x - p.x + P256_P))
             x3 == (lambda * lambda + 2 * P256_P - p.x - q.x) % P256_P
             y3 == (lambda * (p.x + P256_P - x3) + P256_P - p.y) % P256_P
         IN  AffinePoint(x3, y3, 0)

p256_sub(p, q) == p256_add(p, p256_neg(q))

\* k * p by repeated addition.
RECURSIVE p256_mul_rec(_, _)
p256_mul_rec(p, k) == IF k = 0 THEN p256_identity ELSE p256_add(p256_mul_rec(p, k - 1), p)

\* Every point of the group: the multiples of the generator.
P256Points == {p256_mul_rec(p256_generator, k) : k \in 0 .. MODULUS}

\* The multiples of every point, computed once.
P256Multiples == [p \in P256Points |-> [k \in 0 .. MODULUS |-> p256_mul_rec(p, k)]]

\* Multiplication of a point by the integer a scalar holds (a Scalar, or
\* the unreduced Scalar(MODULUS)).
p256_mul(p, k) == P256Multiples[p][k]

\* AffinePoint::decompress(x, y_is_odd): the point of the curve with that x
\* whose y has the parity asked for, when there is one.
decompress(x, y_is_odd) ==
    LET alpha == (x * x * x + P256_A * x + P256_B) % P256_P
        beta == p256_fe_sqrt(alpha)
    IN  IF x >= P256_P \/ is_none(beta) THEN None
        ELSE LET y == IF unwrap(beta) % 2 = y_is_odd
                      THEN unwrap(beta)
                      ELSE (P256_P - unwrap(beta)) % P256_P
             IN  Some(AffinePoint(x, y, 0))

(***************************************************************************)
(*                    PART V.  p256: ecdsa.rs                              *)
(***************************************************************************)

Signature(r, s) == [r |-> r, s |-> s]

\* Result<T, Error>
Ok(v) == [is_ok |-> TRUE, value |-> Some(v)]

Err == [is_ok |-> FALSE, value |-> None]

\* Signature::from_scalars: r and s must both be NonZeroScalars.
from_scalars(r, s) == IF r = 0 \/ s = 0 THEN Err ELSE Ok(Signature(r, s))

\* An ephemeral scalar K: Borrow<Scalar> + Invert<Output = Scalar>.  borrow()
\* yields scalar, invert() yields inverse.
Ephemeral(k, inverse) == [scalar |-> k, inverse |-> inverse]

\* BlindedScalar: a scalar with the random mask that hides its inversion.
BlindedScalar_new(scalar, mask) == [scalar |-> scalar, mask |-> mask]

\* impl Borrow<Scalar> for BlindedScalar
BlindedScalar_borrow(self) == self.scalar

\* An inversion that leaves the mask in its result: the equality of C13
\* depends on the multiplication that removes it.
BlindedScalar_invert_masked(self) ==
    scalar_invert(scalar_mul(self.scalar, self.mask))

\* impl Invert for BlindedScalar: (scalar * mask).invert().map(|s| s * mask)
BlindedScalar_invert(self) ==
    LET inverse == scalar_invert(scalar_mul(self.scalar, self.mask))
    IN  IF is_none(inverse) THEN None
        ELSE Some(scalar_mul(unwrap(inverse), self.mask))

\* A signer that takes one for an inverse the capability does not report:
\* the error of C10 depends on the is_none check.
try_sign_prehashed_unwrap_or(self, ephemeral_scalar, z) ==
    LET k_inverse == ephemeral_scalar.inverse
        k == ephemeral_scalar.scalar
    IN  IF scalar_is_zero(k) THEN Err
        ELSE LET x == p256_mul(p256_generator, k).x
                 r == from_bytes_reduced(x)
                 k_inv == IF is_none(k_inverse) THEN scalar_one ELSE unwrap(k_inverse)
                 s == scalar_mul(k_inv, scalar_add(z, scalar_mul(r, self)))
             IN  IF scalar_is_zero(s) THEN Err ELSE from_scalars(r, s)

\* A signer that builds the Signature from r and s without from_scalars:
\* the range of r in C11 depends on that last call.
try_sign_prehashed_unvalidated(self, ephemeral_scalar, z) ==
    LET k_inverse == ephemeral_scalar.inverse
        k == ephemeral_scalar.scalar
    IN  IF is_none(k_inverse) \/ scalar_is_zero(k) THEN Err
        ELSE LET x == p256_mul(p256_generator, k).x
                 r == from_bytes_reduced(x)
                 s == scalar_mul(unwrap(k_inverse), scalar_add(z, scalar_mul(r, self)))
             IN  IF scalar_is_zero(s) THEN Err ELSE Ok(Signature(r, s))

\* A signer that normalizes s to the lower of s and n - s: the exact s of
\* C16 depends on its absence.
try_sign_prehashed_low_s(self, ephemeral_scalar, z) ==
    LET k_inverse == ephemeral_scalar.inverse
        k == ephemeral_scalar.scalar
    IN  IF is_none(k_inverse) \/ scalar_is_zero(k) THEN Err
        ELSE LET x == p256_mul(p256_generator, k).x
                 r == from_bytes_reduced(x)
                 s == scalar_mul(unwrap(k_inverse), scalar_add(z, scalar_mul(r, self)))
                 low == IF 2 * s > MODULUS THEN MODULUS - s ELSE s
             IN  IF scalar_is_zero(s) THEN Err ELSE from_scalars(r, low)

\* impl SignPrimitive<NistP256> for Scalar
try_sign_prehashed(self, ephemeral_scalar, z) ==
    LET k_inverse == ephemeral_scalar.inverse
        k == ephemeral_scalar.scalar
    IN  IF is_none(k_inverse) \/ scalar_is_zero(k) THEN Err
        ELSE LET x == p256_mul(p256_generator, k).x
                 r == from_bytes_reduced(x)
                 s == scalar_mul(unwrap(k_inverse), scalar_add(z, scalar_mul(r, self)))
             IN  IF scalar_is_zero(s) THEN Err ELSE from_scalars(r, s)

\* A verifier with u1 and u2 exchanged: the acceptance of C1 depends on
\* which of them multiplies the generator.
verify_prehashed_exchanged(self, z, signature) ==
    LET r == signature.r
        s == signature.s
        s_inv == unwrap(scalar_invert(s))
        u1 == scalar_mul(r, s_inv)
        u2 == scalar_mul(z, s_inv)
        x == p256_add(p256_mul(p256_generator, u1), p256_mul(self, u2)).x
    IN  IF from_bytes_reduced(x) = r THEN Ok("unit") ELSE Err

\* A verifier that subtracts u2 * Q where the code adds it: the rejection of
\* C12 depends on the point whose x-coordinate is compared with r.
verify_prehashed_minus(self, z, signature) ==
    LET r == signature.r
        s == signature.s
        s_inv == unwrap(scalar_invert(s))
        u1 == scalar_mul(z, s_inv)
        u2 == scalar_mul(r, s_inv)
        x == p256_sub(p256_mul(p256_generator, u1), p256_mul(self, u2)).x
    IN  IF from_bytes_reduced(x) = r THEN Ok("unit") ELSE Err

\* impl VerifyPrimitive<NistP256> for AffinePoint
verify_prehashed(self, z, signature) ==
    LET r == signature.r
        s == signature.s
        s_inv == unwrap(scalar_invert(s))
        u1 == scalar_mul(z, s_inv)
        u2 == scalar_mul(r, s_inv)
        x == p256_add(p256_mul(p256_generator, u1), p256_mul(self, u2)).x
    IN  IF from_bytes_reduced(x) = r THEN Ok("unit") ELSE Err

\* The cofactor h = Scalar::one() of PKRecover::next.
h == 1

PKRecover(r, s, e, j, invert) == [r |-> r, s |-> s, e |-> e, j |-> j, invert |-> invert]

PKRecover_new(r, s, e, j) == PKRecover(r, s, e, j, FALSE)

\* impl Recoverable<PKRecover> for Signature
candidate_verify_keys(self, hashed_msg, initial_j) ==
    PKRecover_new(self.r, self.s, hashed_msg, initial_j)

\* What a call of next leaves behind: the iterator and what was returned,
\* Some(candidate), None, or a panic out of an unwrap.
Returned(it, ret) == [it |-> it, panicked |-> FALSE, ret |-> ret]

Panicked(it) == [it |-> it, panicked |-> TRUE, ret |-> None]

\* The loop of PKRecover::next, from its while test on.
\* let x = self.r.as_ref() + &(self.j * n.as_ref()): Scalar arithmetic, for n
\* the Scalar that holds MODULUS.
PKRecover_x(self) ==
    LET n == unwrap(NonZeroScalar_new(MODULUS))
    IN  scalar_add(self.r, scalar_mul(self.j, n))

RECURSIVE PKRecover_while(_, _)
PKRecover_while(self, r_inv) ==
    IF ~(self.j <= h) THEN Returned(self, None)
    ELSE LET n == unwrap(NonZeroScalar_new(MODULUS))
             x == PKRecover_x(self)
             decompressed == decompress(x, 0)
         IN  IF is_none(decompressed) THEN Panicked(self)
             ELSE LET R == IF self.invert
                           THEN p256_neg(unwrap(decompressed))
                           ELSE unwrap(decompressed)
                      after == IF self.invert
                               THEN [self EXCEPT !.invert = FALSE,
                                                 !.j = scalar_add(self.j, scalar_one)]
                               ELSE [self EXCEPT !.invert = TRUE]
                  IN  IF p256_is_identity(p256_mul(R, n))
                      THEN LET Q == p256_mul(
                                        p256_sub(p256_mul(R, self.s),
                                                 p256_mul(p256_generator, self.e)),
                                        r_inv)
                           IN  Returned(after, Some(Q))
                      ELSE PKRecover_while(after, r_inv)

\* An iterator that rewinds j when it reports the end: the frame of C18
\* depends on next leaving an exhausted iterator alone.
PKRecover_next_rewind(self) ==
    LET r_inv == scalar_invert(self.r)
    IN  IF is_none(NonZeroScalar_new(MODULUS)) \/ is_none(r_inv)
        THEN Panicked(self)
        ELSE IF ~(self.j <= h)
             THEN Returned([self EXCEPT !.j = scalar_zero], None)
             ELSE PKRecover_while(self, unwrap(r_inv))

\* impl Iterator for PKRecover: fn next(&mut self)
PKRecover_next(self) ==
    LET r_inv == scalar_invert(self.r)
    IN  IF is_none(NonZeroScalar_new(MODULUS)) \/ is_none(r_inv)
        THEN Panicked(self)
        ELSE PKRecover_while(self, unwrap(r_inv))

(***************************************************************************)
(*              PART V-a.  k256: magnitudes in the group law               *)
(*                                                                         *)
(* The magnitude a FieldElement carries, beside its value: add and double  *)
(* accumulate it, negate(m) gives m + 1, mul_single(k) multiplies it by k, *)
(* and mul, square and normalize_weak give 1.  A magnitude is held with    *)
(* peak, the largest magnitude of an operand of a mul or square among the  *)
(* steps that computed the element.                                        *)
(***************************************************************************)

Max2(a, b) == IF a >= b THEN a ELSE b

\* The magnitude of a FieldElement as a caller hands it in.
mag_one == [mag |-> 1, peak |-> 0]

mag_add(a, b) == [mag |-> a.mag + b.mag, peak |-> Max2(a.peak, b.peak)]

mag_double(a) == [mag |-> 2 * a.mag, peak |-> a.peak]

mag_negate(a, m) == [mag |-> m + 1, peak |-> a.peak]

mag_mul(a, b) ==
    [mag |-> 1, peak |-> Max2(Max2(a.mag, b.mag), Max2(a.peak, b.peak))]

mag_square(a) == mag_mul(a, a)

mag_mul_single(a, k) == [mag |-> a.mag * k, peak |-> a.peak]

mag_normalize_weak(a) == [mag |-> 1, peak |-> a.peak]

\* The cube root of unity beta of the scaled-down field: 3^3 = 27 = 1 mod 13.
ENDOMORPHISM_BETA == 3

\* pub fn endomorphism(&self)
endomorphism(self) ==
    ProjectivePoint(fe_mul(self.x, ENDOMORPHISM_BETA), self.y, self.z)

\* fn neg(&self), on magnitudes
neg_magnitudes(self) ==
    ProjectivePoint(self.x, mag_normalize_weak(mag_negate(self.y, 1)), self.z)

\* An addition whose bzz3 is not weakly normalized: the bound of C14 depends
\* on where add normalizes.
add_magnitudes_bzz3(self, other) ==
    LET xx == mag_mul(self.x, other.x)
        yy == mag_mul(self.y, other.y)
        zz == mag_mul(self.z, other.z)
        n_xx_yy == mag_negate(mag_add(xx, yy), 2)
        n_yy_zz == mag_negate(mag_add(yy, zz), 2)
        n_xx_zz == mag_negate(mag_add(xx, zz), 2)
        xy_pairs == mag_add(mag_mul(mag_add(self.x, self.y), mag_add(other.x, other.y)), n_xx_yy)
        yz_pairs == mag_add(mag_mul(mag_add(self.y, self.z), mag_add(other.y, other.z)), n_yy_zz)
        xz_pairs == mag_add(mag_mul(mag_add(self.x, self.z), mag_add(other.x, other.z)), n_xx_zz)
        bzz == mag_mul_single(zz, CURVE_EQUATION_B_SINGLE)
        bzz3 == mag_add(mag_double(bzz), bzz)
        yy_m_bzz3 == mag_add(yy, mag_negate(bzz3, 1))
        yy_p_bzz3 == mag_add(yy, bzz3)
        byz == mag_normalize_weak(mag_mul_single(yz_pairs, CURVE_EQUATION_B_SINGLE))
        byz3 == mag_normalize_weak(mag_add(mag_double(byz), byz))
        xx3 == mag_add(mag_double(xx), xx)
        bxx9 == mag_normalize_weak(mag_mul_single(
                    mag_normalize_weak(mag_add(mag_double(xx3), xx3)),
                    CURVE_EQUATION_B_SINGLE))
    IN  ProjectivePoint(
            mag_normalize_weak(mag_add(mag_mul(xy_pairs, yy_m_bzz3),
                                       mag_negate(mag_mul(byz3, xz_pairs), 1))),
            mag_normalize_weak(mag_add(mag_mul(yy_p_bzz3, yy_m_bzz3),
                                       mag_mul(bxx9, xz_pairs))),
            mag_normalize_weak(mag_add(mag_mul(yz_pairs, yy_p_bzz3),
                                       mag_mul(xx3, xy_pairs))))

\* fn add(&self, other: &ProjectivePoint), on magnitudes
add_magnitudes(self, other) ==
    LET xx == mag_mul(self.x, other.x)
        yy == mag_mul(self.y, other.y)
        zz == mag_mul(self.z, other.z)
        n_xx_yy == mag_negate(mag_add(xx, yy), 2)
        n_yy_zz == mag_negate(mag_add(yy, zz), 2)
        n_xx_zz == mag_negate(mag_add(xx, zz), 2)
        xy_pairs == mag_add(mag_mul(mag_add(self.x, self.y), mag_add(other.x, other.y)), n_xx_yy)
        yz_pairs == mag_add(mag_mul(mag_add(self.y, self.z), mag_add(other.y, other.z)), n_yy_zz)
        xz_pairs == mag_add(mag_mul(mag_add(self.x, self.z), mag_add(other.x, other.z)), n_xx_zz)
        bzz == mag_mul_single(zz, CURVE_EQUATION_B_SINGLE)
        bzz3 == mag_normalize_weak(mag_add(mag_double(bzz), bzz))
        yy_m_bzz3 == mag_add(yy, mag_negate(bzz3, 1))
        yy_p_bzz3 == mag_add(yy, bzz3)
        byz == mag_normalize_weak(mag_mul_single(yz_pairs, CURVE_EQUATION_B_SINGLE))
        byz3 == mag_normalize_weak(mag_add(mag_double(byz), byz))
        xx3 == mag_add(mag_double(xx), xx)
        bxx9 == mag_normalize_weak(mag_mul_single(
                    mag_normalize_weak(mag_add(mag_double(xx3), xx3)),
                    CURVE_EQUATION_B_SINGLE))
    IN  ProjectivePoint(
            mag_normalize_weak(mag_add(mag_mul(xy_pairs, yy_m_bzz3),
                                       mag_negate(mag_mul(byz3, xz_pairs), 1))),
            mag_normalize_weak(mag_add(mag_mul(yy_p_bzz3, yy_m_bzz3),
                                       mag_mul(bxx9, xz_pairs))),
            mag_normalize_weak(mag_add(mag_mul(yz_pairs, yy_p_bzz3),
                                       mag_mul(xx3, xy_pairs))))

\* fn add_mixed(&self, other: &AffinePoint), on magnitudes
add_mixed_magnitudes(self, other) ==
    LET xx == mag_mul(self.x, other.x)
        yy == mag_mul(self.y, other.y)
        xy_pairs == mag_add(mag_mul(mag_add(self.x, self.y), mag_add(other.x, other.y)),
                            mag_negate(mag_add(xx, yy), 2))
        yz_pairs == mag_add(mag_mul(other.y, self.z), self.y)
        xz_pairs == mag_add(mag_mul(other.x, self.z), self.x)
        bzz == mag_mul_single(self.z, CURVE_EQUATION_B_SINGLE)
        bzz3 == mag_normalize_weak(mag_add(mag_double(bzz), bzz))
        yy_m_bzz3 == mag_add(yy, mag_negate(bzz3, 1))
        yy_p_bzz3 == mag_add(yy, bzz3)
        byz == mag_normalize_weak(mag_mul_single(yz_pairs, CURVE_EQUATION_B_SINGLE))
        byz3 == mag_normalize_weak(mag_add(mag_double(byz), byz))
        xx3 == mag_add(mag_double(xx), xx)
        bxx9 == mag_normalize_weak(mag_mul_single(
                    mag_normalize_weak(mag_add(mag_double(xx3), xx3)),
                    CURVE_EQUATION_B_SINGLE))
    IN  ProjectivePoint(
            mag_normalize_weak(mag_add(mag_mul(xy_pairs, yy_m_bzz3),
                                       mag_negate(mag_mul(byz3, xz_pairs), 1))),
            mag_normalize_weak(mag_add(mag_mul(yy_p_bzz3, yy_m_bzz3),
                                       mag_mul(bxx9, xz_pairs))),
            mag_normalize_weak(mag_add(mag_mul(yz_pairs, yy_p_bzz3),
                                       mag_mul(xx3, xy_pairs))))

\* pub fn double(&self), on magnitudes
double_magnitudes(self) ==
    LET yy == mag_square(self.y)
        zz == mag_square(self.z)
        xy2 == mag_double(mag_mul(self.x, self.y))
        bzz == mag_mul_single(zz, CURVE_EQUATION_B_SINGLE)
        bzz3 == mag_normalize_weak(mag_add(mag_double(bzz), bzz))
        bzz9 == mag_normalize_weak(mag_add(mag_double(bzz3), bzz3))
        yy_m_bzz9 == mag_add(yy, mag_negate(bzz9, 1))
        yy_p_bzz3 == mag_add(yy, bzz3)
        yy_zz == mag_mul(yy, zz)
        yy_zz8 == mag_double(mag_double(mag_double(yy_zz)))
        t == mag_mul_single(mag_normalize_weak(mag_add(mag_double(yy_zz8), yy_zz8)),
                            CURVE_EQUATION_B_SINGLE)
    IN  ProjectivePoint(
            mag_mul(xy2, yy_m_bzz9),
            mag_normalize_weak(mag_add(mag_mul(yy_m_bzz9, yy_p_bzz3), t)),
            mag_normalize_weak(mag_double(mag_double(mag_double(
                mag_mul(mag_mul(yy, self.y), self.z))))))

\* pub fn endomorphism(&self), on magnitudes; ENDOMORPHISM_BETA is a
\* normalized constant.
endomorphism_magnitudes(self) ==
    ProjectivePoint(mag_mul(self.x, mag_one), self.y, self.z)

(***************************************************************************)
(*              PART VI.  State                                            *)
(***************************************************************************)

VARIABLES
    acc,        \* k256: the caller's ProjectivePoint
    aff,        \* k256: the caller's AffinePoint
    hist,       \* k256: the calls made so far, with operands and results
    d,          \* p256: the secret scalar
    eph,        \* p256: the ephemeral scalar K handed to try_sign_prehashed
    z,          \* p256: the prehashed message
    signed,     \* p256: None, or Some(the Result holding the signature)
    verified,   \* p256: None, or Some(what verify_prehashed returned)
    iter,       \* p256: None, or Some(the PKRecover iterator)
    initial_j,  \* p256: the initial_j the iterator was made with
    out,        \* p256: the candidates next has returned, in order
    calls,      \* p256: the number of calls of next
    last,       \* p256: None, or Some(what the last call of next left behind)
    k_blinded,  \* p256: None, or Some(the BlindedScalar around the nonce)
    blinded_sig,\* p256: None, or Some(the Result of signing with k_blinded)
    mags,       \* k256: the magnitudes of the coordinates of a ProjectivePoint
    mhist       \* k256: the operations applied to it, with the magnitudes seen

pointVars == <<acc, aff, hist>>

blindVars == <<k_blinded, blinded_sig>>

ecdsaVars == <<d, eph, z, signed, verified, iter, initial_j, out, calls, last, blindVars>>

magVars == <<mags, mhist>>

vars == <<acc, aff, hist, d, eph, z, signed, verified, iter, initial_j, out, calls, last,
          k_blinded, blinded_sig, mags, mhist>>

\* The number of operations a run of the point machine applies.
MaxOps == 2

\* The number of calls of next a run makes on one iterator.
MaxCalls == 6

\* The number of operations a run of the magnitude machine applies.
MaxMagOps == 3

\* The magnitudes of a ProjectivePoint whose coordinates have magnitude 1,
\* as generator(), identity() and from() give them.
MagPoint == ProjectivePoint(mag_one, mag_one, mag_one)

\* The magnitudes of the coordinates of an AffinePoint: they are normalized.
MagAffine == [x |-> mag_one, y |-> mag_one]

MagIdle ==
    /\ mags = MagPoint
    /\ mhist = << >>

(***************************************************************************)
(*              PART VII.  The point machine (k256 group law)              *)
(*                                                                         *)
(* A caller holds a projective accumulator acc and an affine point aff     *)
(* and applies the operations of ProjectivePoint to them in any order.     *)
(* hist records every call made: its operands and its result.              *)
(***************************************************************************)

\* y^2 = x^3 + b
AffineOnCurve(p) ==
    fe_eq(fe_square(p.y),
          fe_add(fe_mul(fe_square(p.x), p.x), fe_mul_single(fe_one, CURVE_EQUATION_B_SINGLE)))

\* An AffinePoint value the type admits: the identity, or a point of the curve.
AffineValid(p) == affine_is_identity(p) \/ AffineOnCurve(p)

\* Y^2 Z = X^3 + b Z^3, and not the triple (0, 0, 0)
ProjectiveOnCurve(p) ==
    /\ ~(fe_eq(p.x, 0) /\ fe_eq(p.y, 0) /\ fe_eq(p.z, 0))
    /\ fe_eq(fe_mul(fe_square(p.y), p.z),
             fe_add(fe_mul(fe_square(p.x), p.x),
                    fe_mul_single(fe_mul(fe_square(p.z), p.z), CURVE_EQUATION_B_SINGLE)))

\* The ProjectivePoint values that generator() and identity() give rise to
\* under add (neg and double of them are among them).
RECURSIVE PointClosure(_)
PointClosure(S) ==
    LET T == S \cup {add(p, q) : p \in S, q \in S}
    IN  IF T = S THEN S ELSE PointClosure(T)

\* Every ProjectivePoint a caller can hold: every point of the group, in
\* every scaling of its coordinates the operations produce.
ProjectivePoints == PointClosure({generator, identity})

\* Every AffinePoint a caller can hold: the points of the curve, and the
\* identity.
AffinePoints == {to_affine(p) : p \in ProjectivePoints}

Call(op, self, other, out_) == [op |-> op, self |-> self, other |-> other, out |-> out_]

EcdsaIdle ==
    /\ d = scalar_zero
    /\ eph = [scalar |-> scalar_zero, inverse |-> None]
    /\ z = scalar_zero
    /\ signed = None
    /\ verified = None
    /\ iter = None
    /\ initial_j = scalar_zero
    /\ out = << >>
    /\ calls = 0
    /\ last = None
    /\ k_blinded = None
    /\ blinded_sig = None

InitPoint ==
    /\ acc \in ProjectivePoints
    /\ aff \in AffinePoints
    /\ hist = << >>
    /\ EcdsaIdle
    /\ MagIdle

\* ProjectivePoint::from(aff)
DoFrom ==
    /\ Len(hist) < MaxOps
    /\ acc' = from(aff)
    /\ hist' = Append(hist, Call("from", aff, None, acc'))
    /\ UNCHANGED <<aff, ecdsaVars, magVars>>

\* acc.to_affine()
DoToAffine ==
    /\ Len(hist) < MaxOps
    /\ aff' = to_affine(acc)
    /\ hist' = Append(hist, Call("to_affine", acc, None, aff'))
    /\ UNCHANGED <<acc, ecdsaVars, magVars>>

\* -acc
DoNeg ==
    /\ Len(hist) < MaxOps
    /\ acc' = neg(acc)
    /\ hist' = Append(hist, Call("neg", acc, None, acc'))
    /\ UNCHANGED <<aff, ecdsaVars, magVars>>

\* The operand pairs of a projective addition the caller can form from what
\* it holds: acc + O, O + acc, acc + acc, acc + from(aff), from(aff) + acc.
AddOperands ==
    {<<acc, identity>>, <<identity, acc>>, <<acc, acc>>,
     <<acc, from(aff)>>, <<from(aff), acc>>}

\* self + &other, self += other
DoAdd ==
    /\ Len(hist) < MaxOps
    /\ \E pair \in AddOperands :
          /\ acc' = add(pair[1], pair[2])
          /\ hist' = Append(hist, Call("add", pair[1], pair[2], acc'))
    /\ UNCHANGED <<aff, ecdsaVars, magVars>>

\* acc + &aff, acc += aff
DoAddMixed ==
    /\ Len(hist) < MaxOps
    /\ acc' = add_mixed(acc, aff)
    /\ hist' = Append(hist, Call("add_mixed", acc, aff, acc'))
    /\ UNCHANGED <<aff, ecdsaVars, magVars>>

\* self - &other, for other the accumulator itself or from(aff)
DoSub ==
    /\ Len(hist) < MaxOps
    /\ \E other \in {acc, from(aff)} :
          /\ acc' = sub(acc, other)
          /\ hist' = Append(hist, Call("sub", acc, other, acc'))
    /\ UNCHANGED <<aff, ecdsaVars, magVars>>

\* acc - &aff
DoSubMixed ==
    /\ Len(hist) < MaxOps
    /\ acc' = sub_mixed(acc, aff)
    /\ hist' = Append(hist, Call("sub_mixed", acc, aff, acc'))
    /\ UNCHANGED <<aff, ecdsaVars, magVars>>

\* acc.double()
DoDouble ==
    /\ Len(hist) < MaxOps
    /\ acc' = double(acc)
    /\ hist' = Append(hist, Call("double", acc, None, acc'))
    /\ UNCHANGED <<aff, ecdsaVars, magVars>>

NextPoint ==
    \/ DoFrom
    \/ DoToAffine
    \/ DoNeg
    \/ DoAdd
    \/ DoAddMixed
    \/ DoSub
    \/ DoSubMixed
    \/ DoDouble

SpecPoint == InitPoint /\ [][NextPoint]_vars

(***************************************************************************)
(*              PART VII-a.  The magnitude machine (k256 group law)        *)
(*                                                                         *)
(* A caller applies neg, add, add_mixed, double and endomorphism in any    *)
(* order to a point, feeding each result into the next operation; mags     *)
(* follows the magnitudes of the coordinates, mhist the operations, each   *)
(* with the magnitudes of its result and the peak among its mul operands.  *)
(***************************************************************************)

\* A point handed to the next operation: its magnitudes stay, the peak is
\* counted afresh.
Fresh(p) ==
    ProjectivePoint([mag |-> p.x.mag, peak |-> 0],
                    [mag |-> p.y.mag, peak |-> 0],
                    [mag |-> p.z.mag, peak |-> 0])

\* The largest magnitude handed to a mul or square while p was computed.
Peak(p) == Max2(p.x.peak, Max2(p.y.peak, p.z.peak))

MagCall(op, out_) == [op |-> op, out |-> out_]

InitMagnitude ==
    /\ acc = identity
    /\ aff = affine_identity
    /\ hist = << >>
    /\ MagIdle
    /\ EcdsaIdle

MagNeg ==
    /\ Len(mhist) < MaxMagOps
    /\ mags' = neg_magnitudes(Fresh(mags))
    /\ mhist' = Append(mhist, MagCall("neg", mags'))
    /\ UNCHANGED <<pointVars, ecdsaVars>>

\* mags + a point of magnitude 1, that point + mags, mags + mags
MagAdd ==
    /\ Len(mhist) < MaxMagOps
    /\ \E pair \in {<<Fresh(mags), MagPoint>>, <<MagPoint, Fresh(mags)>>,
                     <<Fresh(mags), Fresh(mags)>>} :
          mags' = add_magnitudes(pair[1], pair[2])
    /\ mhist' = Append(mhist, MagCall("add", mags'))
    /\ UNCHANGED <<pointVars, ecdsaVars>>

MagAddMixed ==
    /\ Len(mhist) < MaxMagOps
    /\ mags' = add_mixed_magnitudes(Fresh(mags), MagAffine)
    /\ mhist' = Append(mhist, MagCall("add_mixed", mags'))
    /\ UNCHANGED <<pointVars, ecdsaVars>>

MagDouble ==
    /\ Len(mhist) < MaxMagOps
    /\ mags' = double_magnitudes(Fresh(mags))
    /\ mhist' = Append(mhist, MagCall("double", mags'))
    /\ UNCHANGED <<pointVars, ecdsaVars>>

MagEndomorphism ==
    /\ Len(mhist) < MaxMagOps
    /\ mags' = endomorphism_magnitudes(Fresh(mags))
    /\ mhist' = Append(mhist, MagCall("endomorphism", mags'))
    /\ UNCHANGED <<pointVars, ecdsaVars>>

NextMagnitude ==
    \/ MagNeg
    \/ MagAdd
    \/ MagAddMixed
    \/ MagDouble
    \/ MagEndomorphism

SpecMagnitude == InitMagnitude /\ [][NextMagnitude]_vars

(***************************************************************************)
(*              PART VIII.  The ECDSA machine (p256)                       *)
(*                                                                         *)
(* SpecEcdsa: a signer holds d, the ephemeral scalar and z, signs, and the *)
(* signature is then verified against d * G and handed to the recovery     *)
(* iterator.  SpecRecover: the iterator is run on any signature (r, s),    *)
(* any z and any initial_j.                                                *)
(***************************************************************************)

PointIdle ==
    /\ acc = identity
    /\ aff = affine_identity
    /\ hist = << >>
    /\ MagIdle

\* The ephemeral scalars a signer can hand in: a Scalar k, whose invert() is
\* the scalar inverse; a K whose invert capability reports no inverse; and a
\* K that holds a precomputed inverse beside a scalar that is zero.
Ephemerals ==
    {Ephemeral(k, scalar_invert(k)) : k \in Scalars} \cup
    {Ephemeral(k, None) : k \in Scalars} \cup
    {Ephemeral(scalar_zero, Some(i)) : i \in NonZeroScalars}

InitEcdsa ==
    /\ PointIdle
    /\ d \in Scalars
    /\ eph \in Ephemerals
    /\ z \in Scalars
    /\ signed = None
    /\ verified = None
    /\ iter = None
    /\ initial_j = scalar_zero
    /\ out = << >>
    /\ calls = 0
    /\ last = None
    /\ k_blinded = None
    /\ blinded_sig = None

\* A signature from outside: any pair of NonZeroScalars.
InitRecover ==
    /\ PointIdle
    /\ d = scalar_zero
    /\ eph = [scalar |-> scalar_zero, inverse |-> None]
    /\ z \in Scalars
    /\ \E r \in NonZeroScalars, s \in NonZeroScalars : signed = Some(from_scalars(r, s))
    /\ verified = None
    /\ iter = None
    /\ initial_j = scalar_zero
    /\ out = << >>
    /\ calls = 0
    /\ last = None
    /\ k_blinded = None
    /\ blinded_sig = None

HasSignature == is_some(signed) /\ unwrap(signed).is_ok

TheSignature == unwrap(unwrap(signed).value)

\* d.try_sign_prehashed(&eph, &z)
TrySign ==
    /\ is_none(signed)
    /\ signed' = Some(try_sign_prehashed(d, eph, z))
    /\ UNCHANGED <<pointVars, magVars, blindVars, d, eph, z, verified, iter, initial_j, out, calls, last>>

\* The public key of d: AffinePoint::generator() * d
PublicKey == p256_mul(p256_generator, d)

\* public_point.verify_prehashed(&z, &signature)
Verify ==
    /\ HasSignature
    /\ is_none(verified)
    /\ verified' = Some(verify_prehashed(PublicKey, z, TheSignature))
    /\ UNCHANGED <<pointVars, magVars, blindVars, d, eph, z, signed, iter, initial_j, out, calls, last>>

\* signature.candidate_verify_keys(z, j0), for j0 one of InitialJs
CandidateVerifyKeys(InitialJs) ==
    /\ HasSignature
    /\ is_none(iter)
    /\ \E j0 \in InitialJs :
          /\ iter' = Some(candidate_verify_keys(TheSignature, z, j0))
          /\ initial_j' = j0
    /\ UNCHANGED <<pointVars, magVars, blindVars, d, eph, z, signed, verified, out, calls, last>>

\* An unwrap in next has panicked: the program has ended.
Aborted == is_some(last) /\ unwrap(last).panicked

\* iter.next(): a panic ends the program, so no call follows one.
Next_ ==
    /\ is_some(iter)
    /\ calls < MaxCalls
    /\ ~Aborted
    /\ LET res == PKRecover_next(unwrap(iter))
       IN  /\ iter' = Some(res.it)
           /\ last' = Some(res)
           /\ out' = IF is_some(res.ret) THEN Append(out, unwrap(res.ret)) ELSE out
    /\ calls' = calls + 1
    /\ UNCHANGED <<pointVars, magVars, blindVars, d, eph, z, signed, verified, initial_j>>

NextEcdsa ==
    \/ TrySign
    \/ Verify
    \/ CandidateVerifyKeys({scalar_zero})
    \/ Next_

SpecEcdsa == InitEcdsa /\ [][NextEcdsa]_vars

NextRecover ==
    \/ CandidateVerifyKeys(Scalars)
    \/ Next_

SpecRecover == InitRecover /\ [][NextRecover]_vars

\* A public point, a hashed message and a signature from outside: any point
\* Q = d * G of the group (the identity included), any z, any pair of
\* NonZeroScalars.
InitVerify ==
    /\ PointIdle
    /\ d \in Scalars
    /\ eph = [scalar |-> scalar_zero, inverse |-> None]
    /\ z \in Scalars
    /\ \E r \in NonZeroScalars, s \in NonZeroScalars : signed = Some(from_scalars(r, s))
    /\ verified = None
    /\ iter = None
    /\ initial_j = scalar_zero
    /\ out = << >>
    /\ calls = 0
    /\ last = None
    /\ k_blinded = None
    /\ blinded_sig = None

NextVerify == Verify

SpecVerify == InitVerify /\ [][NextVerify]_vars

\* A secret scalar, a hashed message, a nonce k as a plain Scalar and the
\* same k in a BlindedScalar, under any nonzero mask.
InitBlind ==
    /\ PointIdle
    /\ d \in Scalars
    /\ z \in Scalars
    /\ \E k \in Scalars, mask \in NonZeroScalars :
          /\ eph = Ephemeral(k, scalar_invert(k))
          /\ k_blinded = Some(BlindedScalar_new(k, mask))
    /\ signed = None
    /\ blinded_sig = None
    /\ verified = None
    /\ iter = None
    /\ initial_j = scalar_zero
    /\ out = << >>
    /\ calls = 0
    /\ last = None

\* d.try_sign_prehashed(&k_blinded, &z)
TrySignBlinded ==
    /\ is_some(k_blinded)
    /\ is_none(blinded_sig)
    /\ LET k == unwrap(k_blinded)
       IN  blinded_sig' = Some(try_sign_prehashed(
               d, Ephemeral(BlindedScalar_borrow(k), BlindedScalar_invert(k)), z))
    /\ UNCHANGED <<pointVars, magVars, d, eph, z, signed, verified, iter, initial_j,
                   out, calls, last, k_blinded>>

NextBlind ==
    \/ TrySign
    \/ TrySignBlinded

SpecBlind == InitBlind /\ [][NextBlind]_vars

(***************************************************************************)
(*              PART IX.  Properties of the point machine                  *)
(***************************************************************************)

Calls == DOMAIN hist

\* C3 (point on curve): every affine point a run can reach from points of
\* the curve by from, to_affine, neg, add, add_mixed, sub, sub_mixed and
\* double is the identity (infinity flag set) or satisfies y^2 = x^3 + b.
C3_PointOnCurve ==
    /\ AffineValid(aff)
    /\ \A i \in Calls : hist[i].op = "to_affine" => AffineValid(hist[i].out)

\* C4 (mixed add equivalence): for every projective point P of the curve and
\* every affine point A, the affine identity and the projective identity
\* included, add_mixed(P, A) equals add(P, from(A)) under point equality.
C4_MixedAddEquivalence ==
    \A i \in Calls :
        (/\ hist[i].op = "add_mixed"
         /\ ProjectiveOnCurve(hist[i].self)
         /\ AffineValid(hist[i].other))
        => ct_eq(hist[i].out, add(hist[i].self, from(hist[i].other)))

\* C5 (group identity): for every projective point P of the curve,
\* P + O = P and O + P = P for O the identity, and P + (-P) = O, that is
\* sub(P, P) = O.
C5_GroupIdentity ==
    \A i \in Calls :
        /\ (/\ hist[i].op = "add"
            /\ ProjectiveOnCurve(hist[i].self)
            /\ hist[i].other = identity)
           => ct_eq(hist[i].out, hist[i].self)
        /\ (/\ hist[i].op = "add"
            /\ hist[i].self = identity
            /\ ProjectiveOnCurve(hist[i].other))
           => ct_eq(hist[i].out, hist[i].other)
        /\ (/\ hist[i].op = "sub"
            /\ ProjectiveOnCurve(hist[i].self)
            /\ hist[i].other = hist[i].self)
           => /\ is_identity(hist[i].out)
              /\ fe_eq(hist[i].out.z, fe_zero)
              /\ ~fe_eq(hist[i].out.y, fe_zero)

\* A run in which P - P was computed for a P that is not the identity, and
\* P + O and O + P for such a P.
C5_Witness ==
    /\ Len(hist) = 2
    /\ hist[1].op = "add" /\ hist[1].self = identity
    /\ ~is_identity(hist[1].other)
    /\ ct_eq(hist[1].out, hist[1].other)
    /\ hist[2].op = "sub" /\ hist[2].other = hist[2].self
    /\ ~is_identity(hist[2].self)
    /\ is_identity(hist[2].out)

\* C6 (double matches add): for every projective point P of the curve,
\* double(P) equals add(P, P) under point equality, and doubling twice
\* equals (P + P) + (P + P).
C6_DoubleMatchesAdd ==
    \A i \in Calls :
        (hist[i].op = "double" /\ ProjectiveOnCurve(hist[i].self)) =>
            /\ ct_eq(hist[i].out, add(hist[i].self, hist[i].self))
            /\ (i + 1 \in Calls /\ hist[i + 1].op = "double") =>
                   /\ hist[i + 1].self = hist[i].out
                   /\ ct_eq(hist[i + 1].out,
                            add(add(hist[i].self, hist[i].self),
                                add(hist[i].self, hist[i].self)))

\* A run that doubled a point other than the identity twice.
C6_Witness ==
    /\ Len(hist) = 2
    /\ hist[1].op = "double" /\ hist[2].op = "double"
    /\ ProjectiveOnCurve(hist[1].self)
    /\ ~is_identity(hist[1].self)
    /\ ~is_identity(hist[2].out)
    /\ ~ct_eq(hist[2].out, hist[1].self)

Exhausted == is_some(last) /\ ~unwrap(last).panicked /\ is_none(unwrap(last).ret)

Candidates == {out[i] : i \in DOMAIN out}

\* The x-coordinate of k * G, before its reduction modulo n.
NonceX == p256_mul(p256_generator, eph.scalar).x

\* C1 (ECDSA correctness): for d and k nonzero and a signature (r, s), r and
\* s nonzero, returned by try_sign_prehashed(d, k, z), verify_prehashed on
\* the public point d * G with the same z returns Ok.
C1_SignThenVerify ==
    (/\ d # scalar_zero
     /\ eph.scalar # scalar_zero
     /\ HasSignature
     /\ is_some(verified))
    => unwrap(verified).is_ok

\* A signature whose r needed the reduction modulo n (the x-coordinate of
\* k * G is n or more) was made and verified.
C1_Witness ==
    /\ d # scalar_zero
    /\ eph.scalar # scalar_zero
    /\ HasSignature
    /\ NonceX >= MODULUS
    /\ TheSignature.r = NonceX - MODULUS
    /\ is_some(verified)
    /\ unwrap(verified).is_ok

\* C2 (recovery correctness): for a signature made by signing with the secret
\* scalar d over z, the sequence collected from candidate_verify_keys(z, 0)
\* contains the public point d * G.
C2_RecoveryCorrectness ==
    (/\ d # scalar_zero
     /\ HasSignature
     /\ is_some(iter)
     /\ initial_j = scalar_zero
     /\ Exhausted \/ Aborted)
    => PublicKey \in Candidates

\* C8 (termination and resources): for any r, s, z and initial_j, repeated
\* calls of next reach None after finitely many calls, at most 2 (h + 1)
\* candidates are returned in all, and none when initial_j > h.
C8_FiniteIterator ==
    is_some(iter) =>
        /\ Len(out) <= 2 * (h + 1)
        /\ initial_j > h => Len(out) = 0
        /\ ~Aborted
        /\ calls >= 2 * (h + 1) + 1 => Exhausted

\* C9 (no raise): for any nonzero r and s, any z and any initial_j, every
\* call of next returns a candidate or None and never panics; a j whose x
\* has no point of the curve is skipped.
C9_NeverPanics ==
    is_some(last) =>
        /\ ~unwrap(last).panicked
        /\ is_some(unwrap(last).ret) \/ is_none(unwrap(last).ret)

\* C10 (bad nonce): try_sign_prehashed returns an error and no signature
\* whenever the nonce k is zero or its invert capability reports no inverse,
\* whatever d and z are.
C10_BadNonce ==
    (/\ is_some(signed)
     /\ scalar_is_zero(eph.scalar) \/ is_none(eph.inverse))
    => (~unwrap(signed).is_ok /\ is_none(unwrap(signed).value))

\* try_sign_prehashed was called with a nonzero nonce whose invert capability
\* reports no inverse, with d nonzero, and returned an error.
C10_Witness ==
    /\ is_some(signed)
    /\ d # scalar_zero
    /\ eph.scalar # scalar_zero
    /\ is_none(eph.inverse)
    /\ ~unwrap(signed).is_ok

\* The r and s that try_sign_prehashed computes from d, the nonce and z,
\* where the nonce's invert capability reports an inverse.
ComputedR == from_bytes_reduced(NonceX)

ComputedS == scalar_mul(unwrap(eph.inverse), scalar_add(z, scalar_mul(ComputedR, d)))

\* C11 (zero r or s): try_sign_prehashed returns an error whenever the r it
\* computes is zero or the s it computes is zero, so every signature it
\* returns has r and s in 1 .. n - 1.
C11_NonZeroSignature ==
    is_some(signed) =>
        /\ (/\ is_some(eph.inverse)
            /\ ~scalar_is_zero(eph.scalar)
            /\ scalar_is_zero(ComputedR) \/ scalar_is_zero(ComputedS))
           => ~unwrap(signed).is_ok
        /\ HasSignature => /\ TheSignature.r \in NonZeroScalars
                           /\ TheSignature.s \in NonZeroScalars

\* try_sign_prehashed was called with a nonce k, k nonzero and with an
\* inverse, for which the x-coordinate of k * G is n, so that r is zero
\* while s is not, and returned an error.
C11_Witness ==
    /\ is_some(signed)
    /\ is_some(eph.inverse)
    /\ ~scalar_is_zero(eph.scalar)
    /\ NonceX = MODULUS
    /\ ~scalar_is_zero(ComputedS)
    /\ ~unwrap(signed).is_ok

\* The point u1 * G + u2 * Q of verify_prehashed, for Q the public point, z
\* and the signature at hand.
VerifyPoint ==
    LET s_inv == unwrap(scalar_invert(TheSignature.s))
        u1 == scalar_mul(z, s_inv)
        u2 == scalar_mul(TheSignature.r, s_inv)
    IN  p256_add(p256_mul(p256_generator, u1), p256_mul(PublicKey, u2))

C14_MagnitudeBound ==
    \A i \in DOMAIN mhist :
        /\ Peak(mhist[i].out) <= 8
        /\ mhist[i].out.x.mag = 1
        /\ mhist[i].out.y.mag = 1
        /\ mhist[i].out.z.mag = 1

\* A run that fed the result of an add into a double and that into an
\* add_mixed, each of them handing operands of magnitude above 1 to a mul.
C14_Witness ==
    /\ Len(mhist) = 3
    /\ mhist[1].op = "add" /\ Peak(mhist[1].out) = 4
    /\ mhist[2].op = "double" /\ Peak(mhist[2].out) = 3
    /\ mhist[3].op = "add_mixed" /\ Peak(mhist[3].out) = 4

\* C13 (blinded nonce): signing with a BlindedScalar around k, under any
\* nonzero mask, returns exactly what signing with the plain Scalar k
\* returns, the same (r, s) or the same error, for every d, z and k.
C13_BlindingTransparent ==
    (/\ is_some(k_blinded)
     /\ is_some(signed)
     /\ is_some(blinded_sig))
    => unwrap(blinded_sig) = unwrap(signed)

\* Both signers have returned a signature, the same one, for a mask that is
\* not one and a nonzero d.
C13_Witness ==
    /\ is_some(k_blinded)
    /\ unwrap(k_blinded).mask # scalar_one
    /\ d # scalar_zero
    /\ HasSignature
    /\ is_some(blinded_sig)
    /\ unwrap(blinded_sig).is_ok
    /\ unwrap(unwrap(blinded_sig).value) = TheSignature

\* C15 (x in the base field): for each index j the iterator processes, the
\* x-coordinate it decompresses is the integer r + j * n, taken in the base
\* field and not reduced modulo n, and a j with r + j * n >= p yields no
\* candidate.
C15_BaseFieldX ==
    (/\ is_some(iter)
     /\ ~Aborted
     /\ unwrap(iter).j <= h)
    => LET self == unwrap(iter)
           x == self.r + self.j * MODULUS
       IN  /\ PKRecover_x(self) = x
           /\ x >= P256_P => is_none(PKRecover_next(self).ret)

\* The inverse of the nonce modulo n, for a nonce that is not zero.
NonceInverse == CHOOSE i \in NonZeroScalars : (i * eph.scalar) % MODULUS = 1

\* C16 (exact r and s): on success try_sign_prehashed returns exactly
\* r = (x-coordinate of k * G) mod n and s = k^-1 (z + r d) mod n; s is not
\* replaced by n - s, so an s above n / 2 is returned as it is.
C16_ExactSignature ==
    HasSignature =>
        LET r == NonceX % MODULUS
        IN  /\ TheSignature.r = r
            /\ TheSignature.s = (NonceInverse * (z + r * d)) % MODULUS

\* try_sign_prehashed returned a signature whose s is above n / 2.
C16_Witness ==
    /\ HasSignature
    /\ d # scalar_zero
    /\ 2 * TheSignature.s > MODULUS
    /\ TheSignature.s = (NonceInverse * (z + TheSignature.r * d)) % MODULUS

\* The number of calls of next that find j <= h, on an iterator made with
\* initial_j: two for each j from initial_j to h.
CandidateCalls == IF initial_j <= h THEN 2 * (h + 1 - initial_j) ELSE 0

Min2(a, b) == IF a <= b THEN a ELSE b

\* The candidate of index j and one sign choice: R is the point that the x of
\* that j decompresses to, with even y, negated for the second choice.
CandidateAt(j, negated) ==
    LET self == unwrap(iter)
        R0 == unwrap(decompress(PKRecover_x([self EXCEPT !.j = j]), 0))
        R == IF negated THEN p256_neg(R0) ELSE R0
    IN  p256_mul(p256_sub(p256_mul(R, self.s), p256_mul(p256_generator, self.e)),
                 unwrap(scalar_invert(self.r)))

\* C17 (alternation): for each j <= h the calls of next alternate on the
\* invert flag: the first call for j uses the decompressed R (even y) and
\* leaves j as it is with invert set, the second uses -R, clears invert and
\* adds one to j; so the candidates come out in the order (j, R), (j, -R),
\* (j + 1, R), (j + 1, -R).
C17_Alternation ==
    is_some(iter) =>
        LET m == Min2(calls, CandidateCalls)
        IN  /\ Len(out) = m
            /\ unwrap(iter).j = initial_j + m \div 2
            /\ unwrap(iter).invert = (m % 2 = 1)
            /\ \A i \in 1 .. m :
                   out[i] = CandidateAt(initial_j + (i - 1) \div 2, (i - 1) % 2 = 1)

\* C18 (frame of next): once next has returned None, every later call
\* returns None too and leaves r, s, e, j and invert as they are; and over
\* any calls of next r, s and e stay as they are and j never decreases.
C18_Frame ==
    [][(is_some(iter) /\ calls' = calls + 1) =>
          /\ unwrap(iter').r = unwrap(iter).r
          /\ unwrap(iter').s = unwrap(iter).s
          /\ unwrap(iter').e = unwrap(iter).e
          /\ unwrap(iter').j >= unwrap(iter).j
          /\ Exhausted => /\ Exhausted'
                          /\ iter' = iter
                          /\ out' = out]_vars

\* An iterator that returned four candidates, then None, and None again
\* on the call after that.
C18_Witness ==
    /\ is_some(iter)
    /\ initial_j = scalar_zero
    /\ calls = 2 * (h + 1) + 2
    /\ Len(out) = 2 * (h + 1)
    /\ Exhausted
    /\ unwrap(iter).j = h + 1
    /\ unwrap(iter).e = z

=============================================================================
